---- MODULE Spec2Model ----
(***************************************************************************)
(* Model of changelog_builder.py: the semantic-version helpers             *)
(* (validate_semantic_version, increment_version), the commit classifier   *)
(* (determine_version_increment) and the orchestration                     *)
(* generate_pr_based_changelog with its external git / file steps.          *)
(*                                                                         *)
(* Python strings are TLA+ strings (TLC evaluates Len, SubSeq and \o on    *)
(* them).  A call that raises is modelled by a record with ok = FALSE.     *)
(***************************************************************************)
EXTENDS Integers, Sequences, FiniteSets, TLC

VARIABLES
    input,          \* arguments of the helper under test (pure-function specifications)
    output,         \* results of the helpers applied so far, by function name
    pc,             \* position of generate_pr_based_changelog
    env,            \* the repository and process environment the run sees
    commits,        \* local variable commits      (line 114)
    from_tag,       \* local variable from_tag     (line 120)
    increment_type, \* local variable increment_type (line 125)
    new_tag,        \* local variable new_tag      (line 126)
    attempts,       \* how many times each step of the run was executed
    failed,         \* the step whose exception ended the run, or "none"
    effects,        \* the external side effects that succeeded, in order
    created_tags,   \* tags created locally by the run   (git tag)
    pushed_tags,    \* tags published by the run         (git push origin <tag>)
    changelog,      \* content of changelog.md, one element per line
    stdout          \* what the run printed

helperVars == <<input, output>>
runVars == <<pc, env, commits, from_tag, increment_type, new_tag, attempts,
             failed, effects, created_tags, pushed_tags, changelog, stdout>>
vars == <<input, output, pc, env, commits, from_tag, increment_type, new_tag,
          attempts, failed, effects, created_tags, pushed_tags, changelog, stdout>>

----------------------------------------------------------------------------
(* Bounds *)

MaxTagLen == 6       \* longest generated tag string
MaxComp == 12        \* largest version component of the round-trip inputs
MaxCommits == 3      \* longest commit sequence given to the classifier
MaxRunCommits == 2   \* longest commit sequence of an orchestrated run

----------------------------------------------------------------------------
(* Python string primitives *)

Digits == {"0", "1", "2", "3", "4", "5", "6", "7", "8", "9"}

DigitChar == <<"0", "1", "2", "3", "4", "5", "6", "7", "8", "9">>

DigitVal(c) == CHOOSE d \in 0..9 : DigitChar[d + 1] = c

CharAt(s, i) == SubSeq(s, i, i)

\* sub in s
Contains(sub, s) ==
    \E i \in 1..(Len(s) - Len(sub) + 1) : SubSeq(s, i, i + Len(sub) - 1) = sub

\* s.lstrip(c): every leading occurrence of the character is removed
RECURSIVE lstrip(_, _)
lstrip(s, c) ==
    IF Len(s) > 0 /\ CharAt(s, 1) = c
    THEN lstrip(SubSeq(s, 2, Len(s)), c)
    ELSE s

\* s.split(sep) for a one-character separator: always at least one piece
RECURSIVE split(_, _)
split(s, sep) ==
    IF ~Contains(sep, s)
    THEN <<s>>
    ELSE LET i == CHOOSE k \in 1..Len(s) :
                      /\ CharAt(s, k) = sep
                      /\ \A j \in 1..(k - 1) : CharAt(s, j) # sep
         IN <<SubSeq(s, 1, i - 1)>> \o split(SubSeq(s, i + 1, Len(s)), sep)

\* s.split(" ", 1): at most one split, at the first space
split1(s) ==
    IF ~Contains(" ", s)
    THEN <<s>>
    ELSE LET i == CHOOSE k \in 1..Len(s) :
                      /\ CharAt(s, k) = " "
                      /\ \A j \in 1..(k - 1) : CharAt(s, j) # " "
         IN <<SubSeq(s, 1, i - 1), SubSeq(s, i + 1, Len(s))>>

\* \d+ : one or more decimal digits
IsDigits(s) == Len(s) > 0 /\ \A i \in 1..Len(s) : CharAt(s, i) \in Digits

RECURSIVE DigitsValue(_)
DigitsValue(s) ==
    IF Len(s) = 0 THEN 0
    ELSE 10 * DigitsValue(SubSeq(s, 1, Len(s) - 1)) + DigitVal(CharAt(s, Len(s)))

\* int(s): an optional sign followed by decimal digits; anything else raises
\* ValueError
int(s) ==
    LET signed == Len(s) > 0 /\ CharAt(s, 1) \in {"+", "-"}
        body == IF signed THEN SubSeq(s, 2, Len(s)) ELSE s
    IN IF ~IsDigits(body)
       THEN [ok |-> FALSE, error |-> "ValueError"]
       ELSE [ok |-> TRUE,
             value |-> IF signed /\ CharAt(s, 1) = "-"
                       THEN 0 - DigitsValue(body)
                       ELSE DigitsValue(body)]

\* str(n) as an f-string renders an int: decimal, no leading zeros
RECURSIVE str(_)
str(n) ==
    IF n < 0 THEN "-" \o str(0 - n)
    ELSE IF n < 10 THEN DigitChar[n + 1]
    ELSE str(n \div 10) \o DigitChar[(n % 10) + 1]

----------------------------------------------------------------------------
(* validate_semantic_version and increment_version *)

Raise(e) == [ok |-> FALSE, error |-> e]

\* the pattern without its closing anchor: r"^v\d+\.\d+\.\d+"
validate_unanchored(tag) ==
    /\ Len(tag) > 0
    /\ CharAt(tag, 1) = "v"
    /\ LET parts == split(SubSeq(tag, 2, Len(tag)), ".")
       IN /\ Len(parts) >= 3
          /\ \A i \in 1..3 : IsDigits(parts[i])

\* re.match(r"^v\d+\.\d+\.\d+$", tag) is not None, for a tag without line breaks
validate_semantic_version(tag) ==
    /\ Len(tag) > 0
    /\ CharAt(tag, 1) = "v"
    /\ LET parts == split(SubSeq(tag, 2, Len(tag)), ".")
       IN /\ Len(parts) = 3
          /\ \A i \in 1..3 : IsDigits(parts[i])

\* major, minor, patch = map(int, version.lstrip("v").split("."))
\* Unpacking raises ValueError unless there are exactly three pieces, and int
\* raises ValueError on a piece that is no integer literal.
parse_version(version) ==
    LET parts == split(lstrip(version, "v"), ".")
    IN IF Len(parts) # 3 \/ \E i \in 1..3 : ~int(parts[i]).ok
       THEN Raise("ValueError")
       ELSE [ok |-> TRUE,
             major |-> int(parts[1]).value,
             minor |-> int(parts[2]).value,
             patch |-> int(parts[3]).value]

\* minor and patch rendered in each other's place
format_version_swapped(major, minor, patch) ==
    "v" \o str(major) \o "." \o str(patch) \o "." \o str(minor)

\* return f"v{major}.{minor}.{patch}"
format_version(major, minor, patch) ==
    "v" \o str(major) \o "." \o str(minor) \o "." \o str(patch)

\* a minor increment that forgets to reset patch
bump_keeps_patch(major, minor, patch, version_type) ==
    IF version_type = "major"
    THEN [major |-> major + 1, minor |-> 0, patch |-> 0]
    ELSE IF version_type = "minor"
    THEN [major |-> major, minor |-> minor + 1, patch |-> patch]
    ELSE IF version_type = "patch"
    THEN [major |-> major, minor |-> minor, patch |-> patch + 1]
    ELSE [major |-> major, minor |-> minor, patch |-> patch]

\* the if / elif chain on version_type; any other version_type changes nothing
bump(major, minor, patch, version_type) ==
    IF version_type = "major"
    THEN [major |-> major + 1, minor |-> 0, patch |-> 0]
    ELSE IF version_type = "minor"
    THEN [major |-> major, minor |-> minor + 1, patch |-> 0]
    ELSE IF version_type = "patch"
    THEN [major |-> major, minor |-> minor, patch |-> patch + 1]
    ELSE [major |-> major, minor |-> minor, patch |-> patch]

increment_version(version, version_type) ==
    LET p == parse_version(version)
    IN IF ~p.ok
       THEN p
       ELSE LET b == bump(p.major, p.minor, p.patch, version_type)
            IN [ok |-> TRUE, value |-> format_version(b.major, b.minor, b.patch)]

----------------------------------------------------------------------------
(* Inputs of the version helpers *)

TagAlphabet == {"v", ".", "1", "9"}

RECURSIVE StringsUpTo(_)
StringsUpTo(n) ==
    IF n = 0 THEN {""}
    ELSE LET shorter == StringsUpTo(n - 1)
         IN shorter \cup {s \o c : s \in {t \in shorter : Len(t) = n - 1},
                                   c \in TagAlphabet}

ExtraTags ==
    {"v1.2.3", "1.2.3", "v1.2", "v1.2.3.4", "v0.0.0", "v01.2.3", "v10.0.12",
     "v1.9.99", "vv1.2.3", "v-1.2.3", "v1.+2.3", "V1.2.3", "v1.2.x", "v1.2.3-rc1"}

TagInputs == StringsUpTo(MaxTagLen) \cup ExtraTags

VersionTypes == {"major", "minor", "patch"}

Unset == <<>>

Called(f) == f \in DOMAIN output

IdleRun ==
    /\ pc = "idle"
    /\ env = <<>>
    /\ commits = <<>>
    /\ from_tag = ""
    /\ increment_type = ""
    /\ new_tag = ""
    /\ attempts = <<>>
    /\ failed = "none"
    /\ effects = <<>>
    /\ created_tags = {}
    /\ pushed_tags = {}
    /\ changelog = <<>>
    /\ stdout = <<>>

InitVersion ==
    /\ input \in [version : TagInputs, version_type : VersionTypes]
    /\ output = Unset
    /\ IdleRun

CallValidate ==
    /\ pc = "idle"
    /\ "version" \in DOMAIN input
    /\ ~Called("validate_semantic_version")
    /\ output' = output @@
           ("validate_semantic_version" :> validate_semantic_version(input.version))
    /\ UNCHANGED <<input, runVars>>

CallIncrementVersion ==
    /\ pc = "idle"
    /\ "version_type" \in DOMAIN input
    /\ ~Called("increment_version")
    /\ output' = output @@
           ("increment_version" :> increment_version(input.version, input.version_type))
    /\ UNCHANGED <<input, runVars>>

NextVersion == CallValidate \/ CallIncrementVersion

SpecVersion == InitVersion /\ [][NextVersion]_vars

----------------------------------------------------------------------------
(* Round trip of the rendering and the parsing of increment_version *)

InitRoundTrip ==
    /\ input \in [major : 0..MaxComp, minor : 0..MaxComp, patch : 0..MaxComp]
    /\ output = Unset
    /\ IdleRun

RenderVersion ==
    /\ pc = "idle"
    /\ "major" \in DOMAIN input
    /\ ~Called("format_version")
    /\ output' = output @@
           ("format_version" :> format_version(input.major, input.minor, input.patch))
    /\ UNCHANGED <<input, runVars>>

ParseRendered ==
    /\ pc = "idle"
    /\ Called("format_version")
    /\ ~Called("parse_version")
    /\ output' = output @@ ("parse_version" :> parse_version(output["format_version"]))
    /\ UNCHANGED <<input, runVars>>

ValidateRendered ==
    /\ pc = "idle"
    /\ Called("format_version")
    /\ ~Called("validate_semantic_version")
    /\ output' = output @@
           ("validate_semantic_version" :>
                validate_semantic_version(output["format_version"]))
    /\ UNCHANGED <<input, runVars>>

NextRoundTrip == RenderVersion \/ ParseRendered \/ ValidateRendered

SpecRoundTrip == InitRoundTrip /\ [][NextRoundTrip]_vars

----------------------------------------------------------------------------
(* determine_version_increment *)

\* the fix rule tested before the feat rule
message_rule_fix_first(message) ==
    IF Contains("BREAKING CHANGE", message) THEN "major"
    ELSE IF Contains("fix", message) THEN "patch"
    ELSE IF Contains("feat", message) \/ Contains("feature", message) THEN "minor"
    ELSE "none"

\* the three ifs of the loop body; "none" when the loop goes on to the next commit
message_rule(message) ==
    IF Contains("BREAKING CHANGE", message) THEN "major"
    ELSE IF Contains("feat", message) \/ Contains("feature", message) THEN "minor"
    ELSE IF Contains("fix", message) THEN "patch"
    ELSE "none"

\* a different default after the loop
default_increment_minor == "minor"

\* the return after the loop
default_increment == "patch"

\* the most severe rule matched by any commit wins
determine_most_severe(cs) ==
    IF \E i \in 1..Len(cs) : Contains("BREAKING CHANGE", cs[i][2]) THEN "major"
    ELSE IF \E i \in 1..Len(cs) : Contains("feat", cs[i][2]) THEN "minor"
    ELSE "patch"

\* for _, message in commits: ... return on the first rule that matches
RECURSIVE determine_version_increment(_)
determine_version_increment(cs) ==
    IF Len(cs) = 0 THEN default_increment
    ELSE IF message_rule(Head(cs)[2]) # "none" THEN message_rule(Head(cs)[2])
    ELSE determine_version_increment(Tail(cs))

Messages ==
    {"unrelated", "fix: bug", "feat: X", "BREAKING CHANGE: remove API",
     "chore: cleanup", "fix: feat flag", "feature: fix BREAKING CHANGE",
     "breaking change", "prefix"}

\* the abbreviated hash of the i-th commit of the log
Hash(i) == "a" \o str(i)

SeqsUpTo(S, n) == UNION {[1..k -> S] : k \in 0..n}

CommitLists(S, n) == {[i \in 1..Len(ms) |-> <<Hash(i), ms[i]>>] : ms \in SeqsUpTo(S, n)}

MessagesOf(cs) == [i \in 1..Len(cs) |-> cs[i][2]]

InitClassify ==
    /\ input \in [commits : CommitLists(Messages, MaxCommits)]
    /\ output = Unset
    /\ IdleRun

CallDetermine ==
    /\ pc = "idle"
    /\ "commits" \in DOMAIN input
    /\ ~Called("determine_version_increment")
    /\ output' = output @@
           ("determine_version_increment" :> determine_version_increment(input.commits))
    /\ UNCHANGED <<input, runVars>>

NextClassify == CallDetermine

SpecClassify == InitClassify /\ [][NextClassify]_vars

----------------------------------------------------------------------------
(* get_commits_from_pr, get_latest_tag, update_changelog *)

\* subprocess.run(..., check=True) returns the lines of the command's standard
\* output, raises CalledProcessError on a non-zero exit, or raises OSError when
\* the command cannot be started
RunOutcomes == {"ok", "CalledProcessError", "OSError"}

Completed(lines) == [ok |-> TRUE, stdout |-> lines]

\* git log base..pr --pretty=format:"%h %s" over the commits of the pull request
GitLogLines(cs) == [i \in 1..Len(cs) |-> cs[i][1] \o " " \o cs[i][2]]

\* the list comprehension on the log lines; [] when git log failed
get_commits_from_pr(result) ==
    IF ~result.ok THEN <<>>
    ELSE [i \in 1..Len(result.stdout) |->
              <<split1(result.stdout[i])[1], split1(result.stdout[i])[2]>>]

\* tags[0] of the sorted tag list; ValueError without tags; CalledProcessError
\* is printed and raised again
get_latest_tag(result) ==
    IF ~result.ok THEN Raise("CalledProcessError")
    ELSE IF Len(result.stdout) = 0 THEN Raise("ValueError")
    ELSE [ok |-> TRUE, value |-> result.stdout[1]]

\* os.getenv(name, default)
getenv(environ, name, default) ==
    IF name \in DOMAIN environ THEN environ[name] ELSE default

\* the lines update_changelog appends to the file opened in append mode
update_changelog(file, environ, cs, tag_from, tag_to) ==
    LET github_repo == getenv(environ, "GITHUB_REPOSITORY", "unknown/repo")
        base_url == "https://github.com/" \o github_repo \o "/commit"
    IN file \o <<"", "## Changes from " \o tag_from \o " to " \o tag_to, "">>
            \o [i \in 1..Len(cs) |->
                    "- [" \o cs[i][1] \o "](" \o base_url \o "/" \o cs[i][1]
                         \o "): " \o cs[i][2]]

----------------------------------------------------------------------------
(* generate_pr_based_changelog("develop", "feature/new-feature") *)

base_branch == "develop"

pr_branch == "feature/new-feature"

StepOrder ==
    <<"get_commits_from_pr", "get_latest_tag", "validate_semantic_version",
      "determine_version_increment", "increment_version", "git_tag",
      "git_push_tag", "update_changelog", "git_add", "git_commit",
      "git_push_branch">>

Steps == {StepOrder[i] : i \in 1..Len(StepOrder)}

\* the external steps of the run after the new tag is computed
ExternalSteps ==
    {"git_tag", "git_push_tag", "update_changelog", "git_add", "git_commit",
     "git_push_branch"}

StepIndex(s) == CHOOSE i \in 1..Len(StepOrder) : StepOrder[i] = s

\* the changelog is written before the tag is created
next_step_changelog_first(step) ==
    IF step = "increment_version" THEN "update_changelog"
    ELSE IF step = "update_changelog" THEN "git_tag"
    ELSE IF step = "git_push_tag" THEN "git_add"
    ELSE IF step = "git_push_branch" THEN "done"
    ELSE StepOrder[StepIndex(step) + 1]

\* the statement that follows a completed statement of the try block
next_step(step) ==
    IF step = "git_push_branch" THEN "done"
    ELSE StepOrder[StepIndex(step) + 1]

\* the exception is swallowed and the run goes on (check=True left out)
on_exception_continue(step) == next_step(step)

\* except Exception as e: print(f"Error: {e}") ends the function
on_exception(step) == "error"

\* the guard never ends the run
no_commits_never(cs) == FALSE

\* if not commits: ... return
no_commits(cs) == Len(cs) = 0

\* the tag is never rejected
tag_rejected_never(tag) == FALSE

\* if not validate_semantic_version(from_tag): raise ValueError(...)
tag_rejected(tag) == ~validate_semantic_version(tag)

RunMessages == {"unrelated", "fix: bug", "feat: X", "BREAKING CHANGE: remove API"}

\* the repository's tags as git tag --sort=-v:refname lists them
RepoTagOrder == <<"v1.2.3", "v1.2", "v0.9.10", "1.2.3">>

\* the sub-sequence of a sequence at the positions in keep
RECURSIVE Pick(_, _)
Pick(sq, keep) ==
    IF Len(sq) = 0 THEN <<>>
    ELSE (IF Len(sq) \in keep THEN Pick(SubSeq(sq, 1, Len(sq) - 1), keep) \o <<sq[Len(sq)]>>
          ELSE Pick(SubSeq(sq, 1, Len(sq) - 1), keep))

TagLists == {Pick(RepoTagOrder, keep) : keep \in SUBSET (1..Len(RepoTagOrder))}

Environs == {<<>>, "GITHUB_REPOSITORY" :> "miraccan00/release-repo"}

InitialChangelog == <<"# Changelog">>

Init ==
    /\ input = Unset
    /\ output = Unset
    /\ pc = "get_commits_from_pr"
    /\ env \in [commits : CommitLists(RunMessages, MaxRunCommits),
                tags : TagLists,
                environ : Environs]
    /\ commits = <<>>
    /\ from_tag = ""
    /\ increment_type = ""
    /\ new_tag = ""
    /\ attempts = [s \in Steps |-> 0]
    /\ failed = "none"
    /\ effects = <<>>
    /\ created_tags = {}
    /\ pushed_tags = {}
    /\ changelog = InitialChangelog
    /\ stdout = <<>>

Attempt(step) == attempts' = [attempts EXCEPT ![step] = @ + 1]

\* a statement of the try block raised
Raised(step, message) ==
    /\ pc' = on_exception(step)
    /\ failed' = step
    /\ stdout' = Append(stdout, "Error: " \o message)

\* a statement of the try block completed
Succeeded(step) ==
    /\ pc' = next_step(step)
    /\ UNCHANGED failed

\* lines 114-117
GetCommits ==
    /\ pc = "get_commits_from_pr"
    /\ Attempt("get_commits_from_pr")
    /\ \E outcome \in RunOutcomes :
         IF outcome = "OSError"
         THEN /\ Raised("get_commits_from_pr", outcome)
              /\ UNCHANGED commits
         ELSE LET result == IF outcome = "ok"
                            THEN Completed(GitLogLines(env.commits))
                            ELSE Raise(outcome)
                  found == get_commits_from_pr(result)
                  printed == IF result.ok THEN stdout
                             ELSE Append(stdout, "Error fetching commits")
              IN /\ commits' = found
                 /\ UNCHANGED failed
                 /\ IF no_commits(found)
                    THEN /\ pc' = "done"
                         /\ stdout' = Append(printed,
                                "No commits found between " \o base_branch
                                    \o " and " \o pr_branch \o ".")
                    ELSE /\ pc' = next_step("get_commits_from_pr")
                         /\ stdout' = printed
    /\ UNCHANGED <<helperVars, env, from_tag, increment_type, new_tag, effects,
                   created_tags, pushed_tags, changelog>>

\* lines 120-121
GetLatestTag ==
    /\ pc = "get_latest_tag"
    /\ Attempt("get_latest_tag")
    /\ \E outcome \in RunOutcomes :
         LET got == IF outcome = "OSError" THEN Raise(outcome)
                    ELSE get_latest_tag(IF outcome = "ok" THEN Completed(env.tags)
                                        ELSE Raise(outcome))
         IN IF got.ok
            THEN /\ from_tag' = got.value
                 /\ Succeeded("get_latest_tag")
                 /\ stdout' = Append(stdout, "Latest tag: " \o got.value)
            ELSE /\ Raised("get_latest_tag", got.error)
                 /\ UNCHANGED from_tag
    /\ UNCHANGED <<helperVars, env, commits, increment_type, new_tag, effects,
                   created_tags, pushed_tags, changelog>>

\* lines 122-123
ValidateTag ==
    /\ pc = "validate_semantic_version"
    /\ Attempt("validate_semantic_version")
    /\ IF tag_rejected(from_tag)
       THEN Raised("validate_semantic_version",
                   "Latest tag " \o from_tag \o " is not valid.")
       ELSE Succeeded("validate_semantic_version") /\ UNCHANGED stdout
    /\ UNCHANGED <<helperVars, env, commits, from_tag, increment_type, new_tag,
                   effects, created_tags, pushed_tags, changelog>>

\* line 125
DetermineIncrement ==
    /\ pc = "determine_version_increment"
    /\ Attempt("determine_version_increment")
    /\ increment_type' = determine_version_increment(commits)
    /\ Succeeded("determine_version_increment")
    /\ UNCHANGED <<helperVars, env, commits, from_tag, new_tag, effects,
                   created_tags, pushed_tags, changelog, stdout>>

\* lines 126-127
IncrementVersion ==
    /\ pc = "increment_version"
    /\ Attempt("increment_version")
    /\ LET got == increment_version(from_tag, increment_type)
       IN IF got.ok
          THEN /\ new_tag' = got.value
               /\ Succeeded("increment_version")
               /\ stdout' = Append(stdout, "New tag: " \o got.value)
          ELSE /\ Raised("increment_version", got.error)
               /\ UNCHANGED new_tag
    /\ UNCHANGED <<helperVars, env, commits, from_tag, increment_type, effects,
                   created_tags, pushed_tags, changelog>>

\* a subprocess.run(..., check=True) or file step of lines 130-137: it either
\* completes, with its effect done, or raises, leaving what undone allows
External(step, done, undone) ==
    /\ pc = step
    /\ Attempt(step)
    /\ \E ok \in BOOLEAN :
         IF ok
         THEN /\ done
              /\ effects' = Append(effects, step)
              /\ Succeeded(step)
              /\ stdout' = IF next_step(step) = "done"
                           THEN Append(stdout, "Changelog updated and tag "
                                                   \o new_tag \o " pushed.")
                           ELSE stdout
         ELSE /\ Raised(step, step \o " failed")
              /\ undone
              /\ UNCHANGED effects
    /\ UNCHANGED <<helperVars, env, commits, from_tag, increment_type, new_tag>>

NoEffect == UNCHANGED <<created_tags, pushed_tags, changelog>>

\* line 130
GitTag ==
    External("git_tag",
             /\ created_tags' = created_tags \cup {new_tag}
             /\ UNCHANGED <<pushed_tags, changelog>>,
             NoEffect)

\* line 131
GitPushTag ==
    External("git_push_tag",
             /\ pushed_tags' = pushed_tags \cup {new_tag}
             /\ UNCHANGED <<created_tags, changelog>>,
             NoEffect)

\* line 134; an exception raised by open or by one of the writes leaves the
\* lines written before it in the file
UpdateChangelog ==
    LET full == update_changelog(changelog, env.environ, commits, from_tag, new_tag)
    IN External("update_changelog",
                /\ changelog' = full
                /\ UNCHANGED <<created_tags, pushed_tags>>,
                /\ \E n \in Len(changelog)..(Len(full) - 1) :
                       changelog' = SubSeq(full, 1, n)
                /\ UNCHANGED <<created_tags, pushed_tags>>)

\* line 135
GitAdd ==
    External("git_add", NoEffect, NoEffect)

\* line 136
GitCommit ==
    External("git_commit", NoEffect, NoEffect)

\* lines 137-139
GitPushBranch ==
    External("git_push_branch", NoEffect, NoEffect)

Next ==
    \/ GetCommits
    \/ GetLatestTag
    \/ ValidateTag
    \/ DetermineIncrement
    \/ IncrementVersion
    \/ GitTag
    \/ GitPushTag
    \/ UpdateChangelog
    \/ GitAdd
    \/ GitCommit
    \/ GitPushBranch

Spec == Init /\ [][Next]_vars

----------------------------------------------------------------------------
(* Properties of the version helpers *)

Incremented == output["increment_version"]

\* ^v\d+\.\d+\.\d+$ read as an automaton over the characters from position i:
\* state 0 expects the v, states 1, 3, 5 the first digit of a component,
\* states 2, 4, 6 are inside a component, and 6 accepts at the end
RECURSIVE PatternRun(_, _, _)
PatternRun(s, i, q) ==
    IF i > Len(s) THEN q = 6
    ELSE LET c == CharAt(s, i)
         IN IF q = 0 THEN c = "v" /\ PatternRun(s, i + 1, 1)
            ELSE IF c \in Digits
            THEN PatternRun(s, i + 1, IF q \in {1, 3, 5} THEN q + 1 ELSE q)
            ELSE c = "." /\ q \in {2, 4} /\ PatternRun(s, i + 1, q + 1)

MatchesPattern(s) == PatternRun(s, 1, 0)

\* C1: for a valid tag v<major>.<minor>.<patch>, increment_version returns a
\* valid tag whose components are (major+1, 0, 0) for "major",
\* (major, minor+1, 0) for "minor" and (major, minor, patch+1) for "patch";
\* no other component changes.
C1_IncrementRules ==
    (Called("increment_version") /\ MatchesPattern(input.version)) =>
        /\ Incremented.ok
        /\ MatchesPattern(Incremented.value)
        /\ LET old == parse_version(input.version)
               new == parse_version(Incremented.value)
           IN /\ input.version_type = "major" =>
                    /\ new.major = old.major + 1
                    /\ new.minor = 0
                    /\ new.patch = 0
              /\ input.version_type = "minor" =>
                    /\ new.major = old.major
                    /\ new.minor = old.minor + 1
                    /\ new.patch = 0
              /\ input.version_type = "patch" =>
                    /\ new.major = old.major
                    /\ new.minor = old.minor
                    /\ new.patch = old.patch + 1
        /\ (input.version = "v1.2.3" /\ input.version_type = "patch")
               => Incremented.value = "v1.2.4"
        /\ (input.version = "v1.2.3" /\ input.version_type = "minor")
               => Incremented.value = "v1.3.0"
        /\ (input.version = "v1.2.3" /\ input.version_type = "major")
               => Incremented.value = "v2.0.0"

C1_Witness ==
    /\ Called("increment_version")
    /\ input = [version |-> "v1.9.99", version_type |-> "minor"]
    /\ Incremented = [ok |-> TRUE, value |-> "v1.10.0"]

\* C5 as stated: parsing (the parsing step of increment_version) fails on every
\* tag that does not match ^v\d+\.\d+\.\d+$.
C5_ParseRejectsInvalid ==
    (Called("increment_version") /\ ~MatchesPattern(input.version)) =>
        ~Incremented.ok

\* C5 as amended: validate_semantic_version accepts exactly the tags that
\* match ^v\d+\.\d+\.\d+$, so it accepts "v1.2.3" and rejects "1.2.3", "v1.2"
\* and "v1.2.3.4"; the parsing step of increment_version raises ValueError on
\* "v1.2" and "v1.2.3.4" but parses "1.2.3" (the leading v is optional to it).
C5_ValidationRejectsInvalid ==
    /\ Called("validate_semantic_version") =>
          /\ output["validate_semantic_version"] <=> MatchesPattern(input.version)
          /\ input.version = "v1.2.3" => output["validate_semantic_version"]
          /\ input.version \in {"1.2.3", "v1.2", "v1.2.3.4"}
                 => ~output["validate_semantic_version"]
    /\ Called("increment_version") =>
          /\ input.version \in {"v1.2", "v1.2.3.4"}
                 => Incremented = [ok |-> FALSE, error |-> "ValueError"]
          /\ (input.version = "1.2.3" /\ input.version_type = "patch")
                 => Incremented = [ok |-> TRUE, value |-> "v1.2.4"]

C5_Witness ==
    /\ Called("validate_semantic_version")
    /\ Called("increment_version")
    /\ input.version = "1.2.3"
    /\ ~output["validate_semantic_version"]
    /\ Incremented.ok

\* C6: parsing the rendering of any (major, minor, patch) of non-negative
\* integers gives back exactly (major, minor, patch), and the rendering matches
\* ^v\d+\.\d+\.\d+$.
C6_RoundTrip ==
    /\ Called("parse_version") =>
          output["parse_version"] = [ok |-> TRUE, major |-> input.major,
                                     minor |-> input.minor, patch |-> input.patch]
    /\ Called("validate_semantic_version") =>
          /\ output["validate_semantic_version"]
          /\ MatchesPattern(output["format_version"])

C6_Witness ==
    /\ Called("parse_version")
    /\ Called("validate_semantic_version")
    /\ input = [major |-> 10, minor |-> 0, patch |-> 12]
    /\ output["format_version"] = "v10.0.12"

----------------------------------------------------------------------------
(* Properties of the classifier *)

Determined == output["determine_version_increment"]

HasKeyword(m) ==
    \/ Contains("BREAKING CHANGE", m)
    \/ Contains("feat", m)
    \/ Contains("feature", m)
    \/ Contains("fix", m)

\* the kind a message with a keyword implies
KindOf(m) ==
    IF Contains("BREAKING CHANGE", m) THEN "major"
    ELSE IF Contains("feat", m) \/ Contains("feature", m) THEN "minor"
    ELSE "patch"

\* C2: the result is the kind implied by the first commit, in the supplied
\* order, whose message matches a rule; commits without a keyword before it are
\* skipped and no later commit changes the result.
C2_FirstMatchWins ==
    Called("determine_version_increment") =>
        LET ms == MessagesOf(input.commits)
        IN /\ \A k \in 1..Len(ms) :
                 (HasKeyword(ms[k]) /\ \A j \in 1..(k - 1) : ~HasKeyword(ms[j]))
                     => Determined = KindOf(ms[k])
           /\ ms = <<"unrelated", "fix: bug", "feat: X">> => Determined = "patch"
           /\ ms = <<"BREAKING CHANGE: remove API", "fix: bug">> => Determined = "major"

C2_Witness ==
    /\ Called("determine_version_increment")
    /\ MessagesOf(input.commits) = <<"unrelated", "fix: bug", "feat: X">>
    /\ Determined = "patch"

\* C3: within one message the rules apply in the order BREAKING CHANGE, feat /
\* feature, fix: BREAKING CHANGE gives major whatever else the message holds,
\* feat without BREAKING CHANGE gives minor even with fix, and the message
\* gives patch by rule only when it holds fix and neither of the other two.
\* (A following BREAKING CHANGE commit tells a patch by rule from the default.)
C3_RulePriority ==
    (Called("determine_version_increment") /\ Len(input.commits) >= 1) =>
        LET ms == MessagesOf(input.commits)
            m == ms[1]
            breaking == Contains("BREAKING CHANGE", m)
            feat == Contains("feat", m) \/ Contains("feature", m)
            fix == Contains("fix", m)
        IN /\ breaking => Determined = "major"
           /\ (feat /\ ~breaking) => Determined = "minor"
           /\ (fix /\ ~feat /\ ~breaking) => Determined = "patch"
           /\ (Len(ms) >= 2 /\ Contains("BREAKING CHANGE", ms[2]) /\ Determined = "patch")
                  => (fix /\ ~feat /\ ~breaking)

C3_Witness ==
    /\ Called("determine_version_increment")
    /\ MessagesOf(input.commits) = <<"fix: feat flag", "BREAKING CHANGE: remove API">>
    /\ Determined = "minor"

\* C4: the result is patch for the empty sequence and for a sequence in which
\* no message holds a keyword, and it is always one of major, minor, patch.
C4_DefaultPatch ==
    Called("determine_version_increment") =>
        LET ms == MessagesOf(input.commits)
        IN /\ Determined \in {"major", "minor", "patch"}
           /\ Len(ms) = 0 => Determined = "patch"
           /\ (\A i \in 1..Len(ms) : ~HasKeyword(ms[i])) => Determined = "patch"

C4_Witness ==
    /\ Called("determine_version_increment")
    /\ MessagesOf(input.commits) = <<"chore: cleanup", "breaking change">>
    /\ Determined = "patch"

----------------------------------------------------------------------------
(* Properties of generate_pr_based_changelog *)

Later(s) == {t \in Steps : StepIndex(t) > StepIndex(s)}

Performed(step) == \E i \in 1..Len(effects) : effects[i] = step

\* C7: when an external step fails, the run ends there: the failed step has had
\* no effect and is not retried, no later step is executed, and every step is
\* attempted at most once in a run.
C7_FailFast ==
    /\ \A s \in Steps : attempts[s] <= 1
    /\ \A s \in ExternalSteps :
          failed = s =>
              /\ pc = "error"
              /\ attempts[s] = 1
              /\ ~Performed(s)
              /\ \A t \in Later(s) : attempts[t] = 0 /\ ~Performed(t)

C7_Witness ==
    /\ failed = "git_push_tag"
    /\ pc = "error"
    /\ new_tag \in created_tags
    /\ pushed_tags = {}
    /\ attempts["git_push_tag"] = 1

LatestTagInvalid ==
    \/ Len(env.tags) = 0
    \/ ~MatchesPattern(env.tags[1])

\* C8: the latest tag is validated before it is parsed; in a run whose latest
\* tag does not match the pattern, or that finds no tag, increment_version
\* is never called, no tag is created or pushed, and the changelog is not
\* written.
C8_ValidatedBeforeParse ==
    /\ attempts["increment_version"] > 0 =>
          /\ attempts["validate_semantic_version"] = 1
          /\ MatchesPattern(from_tag)
    /\ LatestTagInvalid =>
          /\ attempts["increment_version"] = 0
          /\ new_tag = ""
          /\ created_tags = {}
          /\ pushed_tags = {}
          /\ changelog = InitialChangelog
          /\ effects = <<>>

C8_Witness ==
    /\ Len(env.tags) > 0
    /\ env.tags[1] = "1.2.3"
    /\ from_tag = "1.2.3"
    /\ pc = "error"
    /\ failed = "validate_semantic_version"
    /\ attempts["increment_version"] = 0

\* C9: when commit retrieval yields an empty list (no commits, or git log
\* failed), the run ends without querying the latest tag, without creating or
\* pushing a tag and without touching the changelog; determine_version_increment
\* is never called with an empty sequence by the run.
C9_EmptyCommitsEndRun ==
    /\ (attempts["get_commits_from_pr"] > 0 /\ Len(commits) = 0) =>
          /\ pc \in {"done", "error"}
          /\ failed = "none" => pc = "done"
          /\ \A t \in Later("get_commits_from_pr") : attempts[t] = 0
          /\ from_tag = ""
          /\ created_tags = {}
          /\ pushed_tags = {}
          /\ changelog = InitialChangelog
          /\ effects = <<>>
    /\ attempts["determine_version_increment"] > 0 => Len(commits) > 0

C9_Witness ==
    /\ Len(env.commits) > 0
    /\ Len(env.tags) > 0
    /\ attempts["get_commits_from_pr"] = 1
    /\ Len(commits) = 0
    /\ pc = "done"
    /\ stdout = <<"Error fetching commits",
                  "No commits found between develop and feature/new-feature.">>

EffectOrder ==
    <<"git_tag", "git_push_tag", "update_changelog", "git_add", "git_commit",
      "git_push_branch">>

\* C10: the side effects of a run occur in the order create tag, push tag,
\* append changelog, git add, git commit, push base branch; whenever the
\* changelog has been appended the new tag is already created and pushed, the
\* base branch is pushed only after the commit succeeded, and a failure rolls
\* nothing back: a created or pushed tag stays.
C10_EffectOrder ==
    /\ Len(effects) <= Len(EffectOrder)
    /\ effects = SubSeq(EffectOrder, 1, Len(effects))
    /\ changelog # InitialChangelog =>
          /\ Performed("git_tag") /\ new_tag \in created_tags
          /\ Performed("git_push_tag") /\ new_tag \in pushed_tags
    /\ Performed("update_changelog") => changelog # InitialChangelog
    /\ Performed("git_push_branch") => Performed("git_commit")
    /\ Performed("git_tag") => new_tag \in created_tags
    /\ Performed("git_push_tag") => new_tag \in pushed_tags

C10_Witness ==
    /\ pc = "error"
    /\ failed = "git_add"
    /\ new_tag \in pushed_tags
    /\ Performed("update_changelog")
    /\ changelog # InitialChangelog
    /\ ~Performed("git_commit")

====
